---- MODULE Spec2Model ----
(***************************************************************************)
(* The two test backends of examples/webserver-proxy/backend:              *)
(*   server.py  - SimpleHandler(BaseHTTPRequestHandler) served by          *)
(*                HTTPServer(('127.0.0.1', 8501)).serve_forever()          *)
(*   app.py     - a Flask app with three routes, app.run(port=8501)        *)
(* Both bind 127.0.0.1:8501, so one run of the system is one of the two    *)
(* programs; `variant` says which.                                         *)
(*                                                                         *)
(* Strings that the code inspects (request targets) are sequences of       *)
(* tokens, e.g. "/health?x=1" is <<"/", "health", "?", "x=1">>.            *)
(* A JSON text is the sequence of its <<key, value>> pairs in the order    *)
(* they are written.                                                       *)
(***************************************************************************)
EXTENDS Integers, Sequences, FiniteSets, TLC

VARIABLES
    variant,     \* "server" (server.py) or "flask" (app.py)
    state,       \* "listening" | "handling": position in the serve loop
    request,     \* the request being handled (NoRequest when listening)
    clock,       \* the wall clock read by datetime.datetime.now(), in ticks
    url_map,     \* app.url_map of the Flask app (empty for server.py)
    transcript   \* the exchanges completed so far, oldest first

vars == <<variant, state, request, clock, url_map, transcript>>

----------------------------------------------------------------------------
(* Bounds of the model *)

MaxReq == 2            \* requests served in one run
MaxSeconds == 1        \* the clock runs from 0 to MaxSeconds seconds
TicksPerSecond == 2    \* sub-second resolution of the clock
MaxClock == MaxSeconds * TicksPerSecond

----------------------------------------------------------------------------
(* Inputs *)

Commands == {"GET", "POST", "HEAD"}

RootPath == <<"/">>
DataPath == <<"/", "api", "/", "data">>
HealthPath == <<"/", "health">>
KnownPaths == {RootPath, DataPath, HealthPath}

Targets ==
    KnownPaths \cup
    { <<"/", "health", "/">>,            \* trailing slash
      <<"/", "health", "?", "x=1">>,     \* query string
      <<"/", "/">> }                     \* leading double slash

NoRequest == [command |-> "", target |-> <<>>, path |-> <<>>]

----------------------------------------------------------------------------
(* String helpers *)

RECURSIVE lstrip(_)
\* str.lstrip('/'): drop the leading run of "/" tokens.
lstrip(t) ==
    IF t # <<>> /\ Head(t) = "/" THEN lstrip(Tail(t)) ELSE t

\* BaseHTTPRequestHandler.parse_request, the part that sets self.path: the
\* request target as sent, except that a target starting with '//' is
\* reduced to a single leading '/'.  Both programs receive requests through
\* this parser (app.run serves through an http.server request handler).
parse_request(target) ==
    IF Len(target) >= 2 /\ target[1] = "/" /\ target[2] = "/"
    THEN <<"/">> \o lstrip(target)
    ELSE target

RECURSIVE path_info(_)
\* The path component of a request target: everything before the first '?'.
\* Flask routes on this (PATH_INFO); server.py never computes it.
path_info(t) ==
    IF t = <<>> \/ Head(t) = "?" THEN <<>> ELSE <<Head(t)>> \o path_info(Tail(t))

\* The request line "<command> <target> HTTP/1.1" as received.
requestline(command, target) == <<command, target, "HTTP/1.1">>

----------------------------------------------------------------------------
(* The clock and its formatting *)

\* datetime.datetime.now().isoformat(): seconds, then the sub-second part,
\* which isoformat() leaves out when it is zero.
isoformat(now) ==
    IF now % TicksPerSecond = 0
    THEN <<now \div TicksPerSecond>>
    ELSE <<now \div TicksPerSecond, now % TicksPerSecond>>

\* Reading a timestamp back at second granularity.
SecondsOf(ts) == ts[1]

----------------------------------------------------------------------------
(* JSON *)

\* json.dumps(d): the pairs of the dict in insertion order.
json_dumps(d) == d

\* Keys in the order sorted() gives them.
SortedKeys == <<"items", "message", "proxied_by", "status", "timestamp">>

RECURSIVE PairsWithKeys(_, _)
PairsWithKeys(d, keys) ==
    IF keys = <<>> THEN <<>>
    ELSE SelectSeq(d, LAMBDA p : p[1] = Head(keys)) \o PairsWithKeys(d, Tail(keys))

\* flask.jsonify(d): the default JSON provider writes the keys sorted.
jsonify(d) == PairsWithKeys(d, SortedKeys)

\* The object a JSON text denotes: its keys and the value of each.
JsonKeys(text) == { text[i][1] : i \in 1..Len(text) }
JsonValue(text, k) == text[CHOOSE i \in 1..Len(text) : text[i][1] = k][2]

----------------------------------------------------------------------------
(* server.py: the handler object                                           *)
(*                                                                         *)
(* A handler h is [command, target, path, calls, stdout, read]: the parsed *)
(* request, the output calls made so far in order, the lines printed, and  *)
(* the clock value datetime.now() returned to it (NoRead if never called). *)
(* send_response also emits the Server and Date headers of the base class; *)
(* calls records the calls the handler code makes, not those two headers.  *)

Call(op, code, name, value, data) ==
    [op |-> op, code |-> code, name |-> name, value |-> value, data |-> data]

\* The value of `read` while datetime.now() has not been called.
NoRead == -1

NewHandler(command, target) ==
    [command |-> command, target |-> target, path |-> parse_request(target),
     calls |-> <<>>, stdout |-> <<>>, read |-> NoRead]

\* BaseHTTPRequestHandler.address_string(): client_address[0], the host.
\* The listener is bound to 127.0.0.1, so every client is the loopback host.
address_string == "127.0.0.1"

\* SimpleHandler.log_message(format, *args): one print per call,
\* "[Backend] <address_string()> - <format % args>".
log_message(h, message) ==
    [h EXCEPT !.stdout =
        Append(@, [tag |-> "[Backend]", addr |-> address_string,
                   sep |-> "-", message |-> message])]

\* Mutant of log_request: the request is not logged.
log_request_Silent(h, code) == h

\* BaseHTTPRequestHandler.log_request(code): '"%s" %s %s' of the request
\* line, the code and the size '-'.
log_request(h, code) ==
    log_message(h, [kind |-> "request",
                    requestline |-> requestline(h.command, h.target),
                    code |-> code, text |-> "-"])

\* BaseHTTPRequestHandler.log_error("code %d, message %s", code, message).
log_error(h, code, text) ==
    log_message(h, [kind |-> "error", requestline |-> <<>>,
                    code |-> code, text |-> text])

\* BaseHTTPRequestHandler.send_response(code): log the request, then the
\* status line.
send_response(h, code) ==
    LET logged == log_request(h, code)
    IN  [logged EXCEPT !.calls = Append(@, Call("send_response", code, "", "", <<>>))]

send_header(h, name, value) ==
    [h EXCEPT !.calls = Append(@, Call("send_header", 0, name, value, <<>>))]

end_headers(h) ==
    [h EXCEPT !.calls = Append(@, Call("end_headers", 0, "", "", <<>>))]

wfile_write(h, data) ==
    [h EXCEPT !.calls = Append(@, Call("write", 0, "", "", data))]

\* Mutant of RootResponse: the status field reports another state.
RootResponse_Stopped(now) ==
    << <<"message", "Hello from Python backend!">>,
       <<"timestamp", isoformat(now)>>,
       <<"status", "stopped">>,
       <<"proxied_by", "KDeps WebServer">> >>

\* The three response dicts of do_GET, in insertion order.
RootResponse(now) ==
    << <<"message", "Hello from Python backend!">>,
       <<"timestamp", isoformat(now)>>,
       <<"status", "running">>,
       <<"proxied_by", "KDeps WebServer">> >>

Item(id, name) == << <<"id", id>>, <<"name", name>> >>

\* Mutant of Items: the list in another order.
Items_Reordered ==
    << <<<<"id", 2>>, <<"name", "Item 2">>>>,
       <<<<"id", 1>>, <<"name", "Item 1">>>>,
       <<<<"id", 3>>, <<"name", "Item 3">>>> >>

Items == << Item(1, "Item 1"), Item(2, "Item 2"), Item(3, "Item 3") >>

DataResponse == << <<"items", Items>> >>

\* Mutant of HealthResponse: the answer depends on what was served before.
HealthResponse_Stateful ==
    IF Len(transcript) = 0 THEN << <<"status", "healthy">> >>
    ELSE << <<"status", "degraded">> >>

HealthResponse == << <<"status", "healthy">> >>

\* Mutant of SendJson: the body is written before the headers are ended.
SendJson_BodyFirst(h, d) ==
    end_headers(
        wfile_write(
            send_header(send_response(h, 200), "Content-type", "application/json"),
            json_dumps(d)))

\* The 200 branches share this shape: status, Content-type, end of headers,
\* one write of the serialised dict.
SendJson(h, d) ==
    wfile_write(
        end_headers(
            send_header(send_response(h, 200), "Content-type", "application/json")),
        json_dumps(d))

\* Mutant of do_GET: /health is matched as a prefix.
do_GET_PrefixMatch(h, now) ==
    IF h.path = RootPath
    THEN SendJson([h EXCEPT !.read = now], RootResponse(now))
    ELSE IF h.path = DataPath THEN SendJson(h, DataResponse)
    ELSE IF Len(h.path) >= 2 /\ SubSeq(h.path, 1, 2) = HealthPath
    THEN SendJson(h, HealthResponse)
    ELSE end_headers(send_response(h, 404))

\* Mutant of do_GET: a route is switched off once a request has been served.
do_GET_Stateful(h, now) ==
    IF h.path = RootPath
    THEN SendJson([h EXCEPT !.read = now], RootResponse(now))
    ELSE IF h.path = DataPath /\ Len(transcript) = 0 THEN SendJson(h, DataResponse)
    ELSE IF h.path = HealthPath THEN SendJson(h, HealthResponse)
    ELSE end_headers(send_response(h, 404))

\* SimpleHandler.do_GET
do_GET(h, now) ==
    IF h.path = RootPath
    THEN SendJson([h EXCEPT !.read = now], RootResponse(now))
    ELSE IF h.path = DataPath THEN SendJson(h, DataResponse)
    ELSE IF h.path = HealthPath THEN SendJson(h, HealthResponse)
    ELSE end_headers(send_response(h, 404))

\* The HTML page of send_error, as the pairs it is filled in with.
ErrorPage(code, text) == << <<"code", code>>, <<"message", text>> >>

\* BaseHTTPRequestHandler.send_error(code, message): log the error, send the
\* status line and headers, and write the HTML page unless the command is HEAD.
send_error(h, code, text) ==
    LET h1 == send_response(log_error(h, code, text), code)
        h2 == send_header(h1, "Connection", "close")
        h3 == send_header(h2, "Content-Type", "text/html;charset=utf-8")
        h4 == end_headers(send_header(h3, "Content-Length", "len(body)"))
    IN  IF h.command # "HEAD" THEN wfile_write(h4, ErrorPage(code, text)) ELSE h4

\* Mutant of handle_one_request: every command is dispatched to do_GET.
handle_one_request_AnyMethod(h, now) == do_GET(h, now)

\* BaseHTTPRequestHandler.handle_one_request after parsing: call
\* do_<command> if the handler class has it, else answer 501.  SimpleHandler
\* defines do_GET only.
handle_one_request(h, now) ==
    IF h.command = "GET" THEN do_GET(h, now)
    ELSE send_error(h, 501, "Unsupported method")

\* What the client receives, read off the calls.
RECURSIVE StatusOf(_)
StatusOf(calls) ==
    IF calls = <<>> THEN 0
    ELSE IF Head(calls).op = "send_response" THEN Head(calls).code
    ELSE StatusOf(Tail(calls))

RECURSIVE HeadersOf(_)
HeadersOf(calls) ==
    IF calls = <<>> THEN <<>>
    ELSE (IF Head(calls).op = "send_header"
          THEN << <<Head(calls).name, Head(calls).value>> >> ELSE <<>>)
         \o HeadersOf(Tail(calls))

RECURSIVE BodyOf(_)
\* The chunks written to wfile, in order.
BodyOf(calls) ==
    IF calls = <<>> THEN <<>>
    ELSE (IF Head(calls).op = "write" THEN <<Head(calls).data>> ELSE <<>>)
         \o BodyOf(Tail(calls))

----------------------------------------------------------------------------
(* app.py: the Flask application *)

\* @app.route(rule) registers the view for GET; the framework adds HEAD and
\* OPTIONS to the methods of such a rule.
Route(rule, endpoint) ==
    [rule |-> rule, endpoint |-> endpoint, methods |-> {"GET", "HEAD", "OPTIONS"}]

\* app.url_map after the module is imported: the three decorated views.
FlaskRoutes ==
    { Route(RootPath, "home"), Route(DataPath, "get_data"), Route(HealthPath, "health") }

\* home(): the dict handed to jsonify.
home(now) ==
    << <<"message", "Hello from Flask backend!">>,
       <<"timestamp", isoformat(now)>>,
       <<"status", "running">> >>

\* get_data()
get_data == << <<"items", Items>> >>

\* Mutant of health: another status word.
health_Ok == << <<"status", "ok">> >>

\* health()
health == << <<"status", "healthy">> >>

\* The view function bound to an endpoint.
view_functions(endpoint, now) ==
    IF endpoint = "home" THEN home(now)
    ELSE IF endpoint = "get_data" THEN get_data
    ELSE health

Response(status, headers, body, read) ==
    [status |-> status, headers |-> headers, body |-> body, read |-> read]

\* The framework's error response: an HTML page.
HTTPException(code, text, extra) ==
    Response(code, << <<"Content-Type", "text/html; charset=utf-8">> >> \o extra,
             <<ErrorPage(code, text)>>, NoRead)

\* Flask's dispatch of one request: match the path component of the parsed
\* target against the rules (exactly, no trailing-slash redirect for rules
\* written without one); no rule: 404; a rule that does not allow the
\* method: 405; else the view's dict through jsonify (a HEAD request runs
\* the view too).  The body of the answer to a HEAD request is not sent.
full_dispatch_request(command, target, now, map) ==
    LET path == path_info(parse_request(target))
        matching == { r \in map : r.rule = path }
        rule == CHOOSE r \in matching : TRUE
        resp ==
            IF matching = {} THEN HTTPException(404, "Not Found", <<>>)
            ELSE IF command \notin rule.methods
            THEN HTTPException(405, "Method Not Allowed",
                               << <<"Allow", "GET, HEAD, OPTIONS">> >>)
            ELSE Response(200, << <<"Content-Type", "application/json">> >>,
                          <<jsonify(view_functions(rule.endpoint, now))>>,
                          IF rule.endpoint = "home" THEN now ELSE NoRead)
    IN  IF command = "HEAD" THEN [resp EXCEPT !.body = <<>>] ELSE resp

----------------------------------------------------------------------------
(* The state machine *)

Exchange(command, target, now, status, headers, body, calls, stdout) ==
    [command |-> command, target |-> target, at |-> now,
     status |-> status, headers |-> headers, body |-> body,
     calls |-> calls, stdout |-> stdout]

\* The state after startup: one of the two programs is listening on 8501.
Init ==
    /\ variant \in {"server", "flask"}
    /\ state = "listening"
    /\ request = NoRequest
    /\ clock = 0
    /\ url_map = IF variant = "flask" THEN FlaskRoutes ELSE {}
    /\ transcript = <<>>

\* Time passes.
Tick ==
    /\ clock < MaxClock
    /\ clock' = clock + 1
    /\ UNCHANGED <<variant, state, request, url_map, transcript>>

\* The serve loop accepts a connection and the request line is parsed.
Accept(command, target) ==
    /\ state = "listening"
    /\ Len(transcript) < MaxReq
    /\ state' = "handling"
    /\ request' = [command |-> command, target |-> target,
                   path |-> parse_request(target)]
    /\ UNCHANGED <<variant, clock, url_map, transcript>>

\* server.py answers the request in hand.
Finish(h) ==
    /\ transcript' = Append(transcript,
            Exchange(h.command, h.target, h.read, StatusOf(h.calls),
                     HeadersOf(h.calls), BodyOf(h.calls), h.calls, h.stdout))
    /\ state' = "listening"
    /\ request' = NoRequest
    /\ UNCHANGED <<variant, clock, url_map>>

\* Mutant of ServeGET: the clock is read once, at startup.
ServeGET_StaleClock ==
    /\ variant = "server"
    /\ state = "handling"
    /\ request.command = "GET"
    /\ Finish(handle_one_request(NewHandler(request.command, request.target), 0))

\* server.py, a GET request: SimpleHandler.do_GET runs.
ServeGET ==
    /\ variant = "server"
    /\ state = "handling"
    /\ request.command = "GET"
    /\ Finish(handle_one_request(NewHandler(request.command, request.target), clock))

\* server.py, any other command: the base class answers 501.
ServeUnsupported ==
    /\ variant = "server"
    /\ state = "handling"
    /\ request.command # "GET"
    /\ Finish(handle_one_request(NewHandler(request.command, request.target), clock))

\* app.py answers the request in hand.
ServeFlask ==
    /\ variant = "flask"
    /\ state = "handling"
    /\ LET r == full_dispatch_request(request.command, request.target, clock, url_map)
       IN  transcript' = Append(transcript,
                Exchange(request.command, request.target, r.read,
                         r.status, r.headers, r.body, <<>>, <<>>))
    /\ state' = "listening"
    /\ request' = NoRequest
    /\ UNCHANGED <<variant, clock, url_map>>

Next ==
    \/ Tick
    \/ \E command \in Commands, target \in Targets : Accept(command, target)
    \/ ServeGET
    \/ ServeUnsupported
    \/ ServeFlask

Spec == Init /\ [][Next]_vars

TypeOK ==
    /\ variant \in {"server", "flask"}
    /\ state \in {"listening", "handling"}
    /\ clock \in 0..MaxClock
    /\ Len(transcript) <= MaxReq

----------------------------------------------------------------------------
(* Reading the transcript *)

Indices == 1..Len(transcript)

\* Header names are case-insensitive: server.py writes 'Content-type', the
\* Flask response 'Content-Type'.
Lower(name) ==
    IF name \in {"Content-type", "Content-Type"} THEN "content-type" ELSE name

HasHeader(x, name) ==
    \E k \in 1..Len(x.headers) : Lower(x.headers[k][1]) = name

HeaderValues(x, name) ==
    { x.headers[k][2] : k \in { n \in 1..Len(x.headers) : Lower(x.headers[n][1]) = name } }

IsJsonResponse(x) ==
    /\ x.status = 200
    /\ HeaderValues(x, "content-type") = {"application/json"}
    /\ Len(x.body) = 1

NoDuplicateKeys(text) == Cardinality(JsonKeys(text)) = Len(text)

\* The path the running program's router compares with its routes:
\* self.path in server.py, the path component of it in app.py.
RoutedPath(x) ==
    IF variant = "server" THEN parse_request(x.target)
    ELSE path_info(parse_request(x.target))

WellFormedTimestamp(ts) ==
    /\ Len(ts) \in {1, 2}
    /\ ts[1] \in 0..MaxSeconds
    /\ Len(ts) = 2 => ts[2] \in 1..(TicksPerSecond - 1)

RootShape(text) ==
    /\ NoDuplicateKeys(text)
    /\ {"message", "timestamp", "status"} \subseteq JsonKeys(text)
    /\ JsonKeys(text) \subseteq {"message", "timestamp", "status", "proxied_by"}
    /\ JsonValue(text, "status") = "running"
    /\ WellFormedTimestamp(JsonValue(text, "timestamp"))

ItemNames == <<"Item 1", "Item 2", "Item 3">>

DataShape(text) ==
    /\ NoDuplicateKeys(text)
    /\ JsonKeys(text) = {"items"}
    /\ LET items == JsonValue(text, "items")
       IN  /\ Len(items) = 3
           /\ \A k \in 1..3 :
                /\ NoDuplicateKeys(items[k])
                /\ JsonKeys(items[k]) = {"id", "name"}
                /\ JsonValue(items[k], "id") = k
                /\ JsonValue(items[k], "name") = ItemNames[k]

HealthShape(text) ==
    /\ NoDuplicateKeys(text)
    /\ JsonKeys(text) = {"status"}
    /\ JsonValue(text, "status") = "healthy"

ShapeFor(path, text) ==
    IF path = RootPath THEN RootShape(text)
    ELSE IF path = DataPath THEN DataShape(text)
    ELSE HealthShape(text)

----------------------------------------------------------------------------
(* C1 *)

NotFoundEmpty(x) ==
    /\ x.status = 404
    /\ x.body = <<>>
    /\ ~HasHeader(x, "content-type")

----------------------------------------------------------------------------
(* C2 *)

----------------------------------------------------------------------------
(* C3 *)

\* C3: every answer to GET /api/data, whatever was served before it, carries
\* an items list of exactly three entries, ids 1, 2, 3 in that order with the
\* names "Item 1", "Item 2", "Item 3".
C3_ItemsFixed ==
    \A i \in Indices :
        LET x == transcript[i]
        IN  x.command = "GET" /\ RoutedPath(x) = DataPath =>
                /\ IsJsonResponse(x)
                /\ DataShape(x.body[1])

\* GET /api/data has been answered after an earlier request.
C3_Witness ==
    /\ Len(transcript) >= 2
    /\ transcript[2].command = "GET"
    /\ transcript[2].target = DataPath
    /\ Len(JsonValue(transcript[2].body[1], "items")) = 3

----------------------------------------------------------------------------
(* C4 *)

----------------------------------------------------------------------------
(* C5 *)

----------------------------------------------------------------------------
(* C6 *)

RequestLine(x) ==
    [tag |-> "[Backend]", addr |-> "127.0.0.1", sep |-> "-",
     message |-> [kind |-> "request",
                  requestline |-> <<x.command, x.target, "HTTP/1.1">>,
                  code |-> x.status, text |-> "-"]]

----------------------------------------------------------------------------
(* C7 *)

IsRootJson(x) ==
    /\ x.command = "GET"
    /\ RoutedPath(x) = RootPath
    /\ IsJsonResponse(x)

Timestamp(x) == JsonValue(x.body[1], "timestamp")

\* The timestamp of each answer to GET / is the clock's value at the step
\* that answers it.
TimestampIsFresh ==
    Len(transcript') = Len(transcript) + 1 =>
        LET x == transcript'[Len(transcript')]
        IN  IsRootJson(x) => Timestamp(x) = isoformat(clock) /\ x.at = clock

\* Of two answers to GET / read a second or more apart, the later one's
\* timestamp is not smaller, in whole seconds.
TimestampsOrdered ==
    \A i, j \in Indices :
        LET x == transcript[i]
            y == transcript[j]
        IN  i < j /\ IsRootJson(x) /\ IsRootJson(y) /\ y.at - x.at >= TicksPerSecond
            => SecondsOf(Timestamp(y)) >= SecondsOf(Timestamp(x))

----------------------------------------------------------------------------
(* C8 *)

\* A body without the clock-derived part.
WithoutTimestamp(body) ==
    [k \in 1..Len(body) |-> SelectSeq(body[k], LAMBDA p : p[1] # "timestamp")]

\* The same request gets the same status, headers and body, the timestamp
\* apart, wherever in the run it is served.
HistoryIndependent ==
    \A i, j \in Indices :
        LET x == transcript[i]
            y == transcript[j]
        IN  x.command = y.command /\ x.target = y.target =>
                /\ x.status = y.status
                /\ x.headers = y.headers
                /\ WithoutTimestamp(x.body) = WithoutTimestamp(y.body)

\* The route table is the one set up at startup.
RouteTableFixed ==
    url_map = IF variant = "flask" THEN FlaskRoutes ELSE {}

\* The serve loop is listening exactly when no request is in hand.
ListeningOrHandling ==
    /\ state \in {"listening", "handling"}
    /\ state = "listening" <=> request = NoRequest

\* A step that completes an exchange returns the server to listening.
BackToListening ==
    Len(transcript') > Len(transcript) => state = "handling" /\ state' = "listening"

----------------------------------------------------------------------------
(* C9 *)

OpsOf(calls) == [k \in 1..Len(calls) |-> calls[k].op]

----------------------------------------------------------------------------
(* C10 *)

\* What server.py answers to a request, as a response.
ServerAnswer(command, target, now) ==
    LET h == handle_one_request(NewHandler(command, target), now)
    IN  Response(StatusOf(h.calls), HeadersOf(h.calls), BodyOf(h.calls), h.read)

\* What app.py answers to a request.
FlaskAnswer(command, target, now) ==
    full_dispatch_request(command, target, now, FlaskRoutes)

\* The answer of the program that is not running to the request of x.
OtherAnswer(x) ==
    LET now == IF x.at = NoRead THEN clock ELSE x.at
    IN  IF variant = "server" THEN FlaskAnswer(x.command, x.target, now)
        ELSE ServerAnswer(x.command, x.target, now)

Volatile == {"message", "timestamp", "proxied_by"}

\* Two JSON texts that denote the same object, the message text, the
\* timestamp and the optional proxied_by apart.
SameJsonApartFromVolatile(a, b) ==
    /\ JsonKeys(a) \ {"proxied_by"} = JsonKeys(b) \ {"proxied_by"}
    /\ \A k \in JsonKeys(a) \ Volatile : JsonValue(a, k) = JsonValue(b, k)

====
